---- MODULE Spec2Model ----
(***************************************************************************)
(* Balance indexing pipeline of batch-balances-squid (src/src/processor.ts) *)
(* together with the generated storage accessors it is built on            *)
(* (src/src/types/generated/storage.ts).                                    *)
(*                                                                         *)
(* The batch handler processBalances is an async function.  It is split at *)
(* its two await points that reach the outside world: the queryStorage     *)
(* call and the store.save call.                                           *)
(***************************************************************************)
EXTENDS Integers, Sequences, FiniteSets, TLC

\* ------------------------------------------------------------------ bounds
MaxHeight == 3   \* blocks the run processes, over all its batches
MaxItems  == 2   \* items (events and calls) per batch
MaxRuns   == 6   \* migration operations the operator runs on one database

\* ------------------------------------------------------- program constants
StartBlock == 1400000   \* setBlockRange({from: 1400000})
Ss58Prefix == 2         \* address prefix of the 'kusama' network

\* --------------------------------------------------------- JS values
Undefined == [undef |-> TRUE]

\* What a function call yields: a value, undefined, or a thrown error
Ok(v)    == [tag |-> "ok", val |-> v]
NoValue  == [tag |-> "undefined"]
Throw(e) == [tag |-> "throw", err |-> e]

TypeError == [type |-> "TypeError", name |-> "TypeError"]

\* class UnknownVersionError extends Error
UnknownVersionError(name) == [type |-> "UnknownVersionError", name |-> name]

Range(s) == {s[i] : i \in 1..Len(s)}

\* Faulty variant: a list, which keeps duplicates
SetAdd_KeepsDuplicates(s, x) == Append(s, x)

\* Set<string>.add: a JS Set keeps insertion order and ignores duplicates
SetAdd(s, x) == IF x \in Range(s) THEN s ELSE Append(s, x)

\* ------------------------------------------------------------ hex codec
HexDigits == <<"0", "1", "2", "3", "4", "5", "6", "7",
               "8", "9", "a", "b", "c", "d", "e", "f">>

HexVal(c) == CHOOSE n \in 0..15 : HexDigits[n + 1] = c

\* toHex(Uint8Array): "0x" followed by two hex digits per byte
RECURSIVE HexBody(_)
HexBody(bytes) ==
    IF bytes = <<>> THEN <<>>
    ELSE <<HexDigits[(Head(bytes) \div 16) + 1], HexDigits[(Head(bytes) % 16) + 1]>>
         \o HexBody(Tail(bytes))

toHex(bytes) == <<"0", "x">> \o HexBody(bytes)

\* decodeHex(string): drops the "0x" prefix and reads two digits per byte
RECURSIVE DecodeBody(_)
DecodeBody(digits) ==
    IF Len(digits) < 2 THEN <<>>
    ELSE <<HexVal(digits[1]) * 16 + HexVal(digits[2])>> \o DecodeBody(SubSeq(digits, 3, Len(digits)))

decodeHex(hex) == DecodeBody(SubSeq(hex, 3, Len(hex)))

\* ------------------------------------------------------------ address codec
RECURSIVE SumBytes(_)
SumBytes(bytes) == IF bytes = <<>> THEN 0 ELSE Head(bytes) + SumBytes(Tail(bytes))

\* ss58.codec('kusama').encode(id): network prefix, the raw bytes, a checksum
\* over both (a byte sum stands for the library's hash)
encodeId(id) == <<Ss58Prefix>> \o id \o <<(Ss58Prefix + SumBytes(id)) % 256>>

\* raw account ids (two bytes stand for the chain's 32)
Alice == <<212, 53>>
Bob   == <<142, 175>>
AccountIds == {Alice, Bob}

\* ------------------------------------------------- versioned event decoders
\* The fingerprint literal recorded for an encoding of an event; the pair
\* stands for the content hash.
EventHash(name, version) == <<name, version>>

\* get isVxxx(): the event's declared fingerprint equals the literal
IsVersion(event, name, version) == event.hash = EventHash(name, version)

\* get asVxxx(): the decoded field set (guarded by assert(this.isVxxx))
AsVersion(event, name, version) == event.args

getBalanceSetAccount(event) ==
    IF IsVersion(event, "Balances.BalanceSet", "V1031")
    THEN Ok(toHex(AsVersion(event, "Balances.BalanceSet", "V1031")[1]))
    ELSE IF IsVersion(event, "Balances.BalanceSet", "V9130")
    THEN Ok(toHex(AsVersion(event, "Balances.BalanceSet", "V9130").who))
    ELSE Throw(UnknownVersionError("BalancesBalanceSetEvent"))

getTransferAccounts(event) ==
    IF IsVersion(event, "Balances.Transfer", "V1020")
    THEN Ok(<<toHex(AsVersion(event, "Balances.Transfer", "V1020")[1]),
              toHex(AsVersion(event, "Balances.Transfer", "V1020")[2])>>)
    ELSE IF IsVersion(event, "Balances.Transfer", "V1050")
    THEN Ok(<<toHex(AsVersion(event, "Balances.Transfer", "V1050")[1]),
              toHex(AsVersion(event, "Balances.Transfer", "V1050")[2])>>)
    ELSE IF IsVersion(event, "Balances.Transfer", "V9130")
    THEN Ok(<<toHex(AsVersion(event, "Balances.Transfer", "V9130").from),
              toHex(AsVersion(event, "Balances.Transfer", "V9130").to)>>)
    ELSE Throw(UnknownVersionError("BalancesTransferEvent"))

getEndowedAccount(event) ==
    IF IsVersion(event, "Balances.Endowed", "V1050")
    THEN Ok(toHex(AsVersion(event, "Balances.Endowed", "V1050")[1]))
    ELSE IF IsVersion(event, "Balances.Endowed", "V9130")
    THEN Ok(toHex(AsVersion(event, "Balances.Endowed", "V9130").account))
    ELSE Throw(UnknownVersionError("BalancesEndowedEvent"))

getDepositAccount(event) ==
    IF IsVersion(event, "Balances.Deposit", "V1032")
    THEN Ok(toHex(AsVersion(event, "Balances.Deposit", "V1032")[1]))
    ELSE IF IsVersion(event, "Balances.Deposit", "V9130")
    THEN Ok(toHex(AsVersion(event, "Balances.Deposit", "V9130").who))
    ELSE Throw(UnknownVersionError("BalancesDepositEvent"))

getReservedAccount(event) ==
    IF IsVersion(event, "Balances.Reserved", "V2008")
    THEN Ok(toHex(AsVersion(event, "Balances.Reserved", "V2008")[1]))
    ELSE IF IsVersion(event, "Balances.Reserved", "V9130")
    THEN Ok(toHex(AsVersion(event, "Balances.Reserved", "V9130").who))
    ELSE Throw(UnknownVersionError("BalancesReservedEvent"))

getUnreservedAccount(event) ==
    IF IsVersion(event, "Balances.Unreserved", "V2008")
    THEN Ok(toHex(AsVersion(event, "Balances.Unreserved", "V2008")[1]))
    ELSE IF IsVersion(event, "Balances.Unreserved", "V9130")
    THEN Ok(toHex(AsVersion(event, "Balances.Unreserved", "V9130").who))
    ELSE Throw(UnknownVersionError("BalancesUnreservedEvent"))

getWithdrawAccount(event) ==
    IF IsVersion(event, "Balances.Withdraw", "V9122")
    THEN Ok(toHex(AsVersion(event, "Balances.Withdraw", "V9122")[1]))
    ELSE IF IsVersion(event, "Balances.Withdraw", "V9130")
    THEN Ok(toHex(AsVersion(event, "Balances.Withdraw", "V9130").who))
    ELSE Throw(UnknownVersionError("BalancesWithdrawEvent"))

getSlashedAccount(event) ==
    IF IsVersion(event, "Balances.Slashed", "V9122")
    THEN Ok(toHex(AsVersion(event, "Balances.Slashed", "V9122")[1]))
    ELSE IF IsVersion(event, "Balances.Slashed", "V9130")
    THEN Ok(toHex(AsVersion(event, "Balances.Slashed", "V9130").who))
    ELSE Throw(UnknownVersionError("BalancesSlashedEvent"))

getReserveRepatriatedAccounts(event) ==
    IF IsVersion(event, "Balances.ReserveRepatriated", "V2008")
    THEN Ok(<<toHex(AsVersion(event, "Balances.ReserveRepatriated", "V2008")[1]),
              toHex(AsVersion(event, "Balances.ReserveRepatriated", "V2008")[2])>>)
    ELSE IF IsVersion(event, "Balances.ReserveRepatriated", "V9130")
    THEN Ok(<<toHex(AsVersion(event, "Balances.ReserveRepatriated", "V9130").from),
              toHex(AsVersion(event, "Balances.ReserveRepatriated", "V9130").to)>>)
    ELSE Throw(UnknownVersionError("BalancesReserveRepatriatedEvent"))

\* ------------------------------------------------------------ item handlers
\* origin.__kind on an absent origin is a property read of undefined
getOriginAccountId(origin) ==
    IF origin = Undefined THEN Throw(TypeError)
    ELSE IF origin.__kind = "system" /\ origin.value.__kind = "Signed"
    THEN Ok(origin.value.value)
    ELSE NoValue

\* Each handler returns Ok(the working set after the item) or Throw(error)
processBalancesCallItem(item, accountIdsHex) ==
    IF item.call.parent # Undefined THEN Ok(accountIdsHex)
    ELSE LET id == getOriginAccountId(item.call.origin) IN
         IF id.tag = "throw" THEN id
         ELSE IF id.tag = "undefined" THEN Ok(accountIdsHex)
         ELSE Ok(SetAdd(accountIdsHex, id.val))

AddOne(r, accountIdsHex) ==
    IF r.tag = "throw" THEN r ELSE Ok(SetAdd(accountIdsHex, r.val))

AddTwo(r, accountIdsHex) ==
    IF r.tag = "throw" THEN r ELSE Ok(SetAdd(SetAdd(accountIdsHex, r.val[1]), r.val[2]))

\* switch (item.name)
DispatchEvent(item, accountIdsHex) ==
    CASE item.name = "Balances.BalanceSet" -> AddOne(getBalanceSetAccount(item.event), accountIdsHex)
      [] item.name = "Balances.Endowed" -> AddOne(getEndowedAccount(item.event), accountIdsHex)
      [] item.name = "Balances.Deposit" -> AddOne(getDepositAccount(item.event), accountIdsHex)
      [] item.name = "Balances.Reserved" -> AddOne(getReservedAccount(item.event), accountIdsHex)
      [] item.name = "Balances.Unreserved" -> AddOne(getUnreservedAccount(item.event), accountIdsHex)
      [] item.name = "Balances.Withdraw" -> AddOne(getWithdrawAccount(item.event), accountIdsHex)
      [] item.name = "Balances.Slashed" -> AddOne(getSlashedAccount(item.event), accountIdsHex)
      [] item.name = "Balances.Transfer" -> AddTwo(getTransferAccounts(item.event), accountIdsHex)
      [] item.name = "Balances.ReserveRepatriated" ->
             AddTwo(getReserveRepatriatedAccounts(item.event), accountIdsHex)
      [] OTHER -> Ok(accountIdsHex)

\* Faulty variant: transfers of a zero amount are taken to change no balance
processBalancesEventItem_SkipZero(item, accountIdsHex) ==
    IF /\ item.name = "Balances.Transfer"
       /\ IsVersion(item.event, "Balances.Transfer", "V9130")
       /\ item.event.args.amount = 0
    THEN Ok(accountIdsHex)
    ELSE DispatchEvent(item, accountIdsHex)

processBalancesEventItem(item, accountIdsHex) == DispatchEvent(item, accountIdsHex)

ProcessItem(item, accountIdsHex) ==
    IF item.kind = "call" THEN processBalancesCallItem(item, accountIdsHex)
    ELSE IF item.kind = "event" THEN processBalancesEventItem(item, accountIdsHex)
    ELSE Ok(accountIdsHex)

\* for (const item of block.items): stops at the first item that throws
RECURSIVE ScanItems(_, _)
ScanItems(items, accountIdsHex) ==
    IF items = <<>> THEN Ok(accountIdsHex)
    ELSE LET r == ProcessItem(Head(items), accountIdsHex) IN
         IF r.tag = "throw" THEN r ELSE ScanItems(Tail(items), r.val)

\* for (const block of ctx.blocks)
RECURSIVE ScanBlocks(_, _)
ScanBlocks(blocks, accountIdsHex) ==
    IF blocks = <<>> THEN Ok(accountIdsHex)
    ELSE LET r == ScanItems(Head(blocks).items, accountIdsHex) IN
         IF r.tag = "throw" THEN r ELSE ScanBlocks(Tail(blocks), r.val)

\* ------------------------------------------------ chain runtime context
\* a type fingerprint as the chain reports it (a hex string)
TypeHash(hex) == [hash |-> hex]

SystemAccount   == <<"System", "Account">>
BalancesAccount == <<"Balances", "Account">>

\* chain.getStorageItemTypeHash(pallet, item): the fingerprint, or undefined
getStorageItemTypeHash(chain, pallet, item) == chain.typeHash[<<pallet, item>>]

\* chain.queryStorage(blockHash, pallet, item, keys): one value per key, in
\* key order, undefined for a key with no stored value
queryStorage(storage, blockHash, pallet, item, keys) ==
    [i \in 1..Len(keys) |-> storage[blockHash][<<pallet, item>>][keys[i][1]]]

\* ------------------------------------------------ generated storage accessors
BalancesAccountStorage_isV1050(chain) ==
    getStorageItemTypeHash(chain, "Balances", "Account")
        = TypeHash("0b3b4bf0dd7388459eba461bc7c3226bf58608c941710a714e02f33ec0f91e78")

\* Faulty variant: the existence check always passes
BalancesAccountStorage_isExists_Always(chain) == TRUE

BalancesAccountStorage_isExists(chain) ==
    getStorageItemTypeHash(chain, "Balances", "Account") # Undefined

SystemAccountStorage_isV1050(chain) ==
    getStorageItemTypeHash(chain, "System", "Account")
        = TypeHash("2208f857b7cd6fecf78ca393cf3d17ec424773727d0028f07c9f0dc608fc1b7a")

SystemAccountStorage_isV2025(chain) ==
    getStorageItemTypeHash(chain, "System", "Account")
        = TypeHash("eb40f1d91f26d72e29c60e034d53a72b9b529014c7e108f422d8ad5f03f0c902")

SystemAccountStorage_isV2028(chain) ==
    getStorageItemTypeHash(chain, "System", "Account")
        = TypeHash("73070b537f1805475b37167271b33ac7fd6ffad8ba62da08bc14937a017b8bb2")

SystemAccountStorage_isV2030(chain) ==
    getStorageItemTypeHash(chain, "System", "Account")
        = TypeHash("1ddc7ade926221442c388ee4405a71c9428e548fab037445aaf4b3a78f4735c1")

SystemAccountStorage_isExists(chain) ==
    getStorageItemTypeHash(chain, "System", "Account") # Undefined

\* ------------------------------------------------ balance resolution
\* Each resolver returns the storage queries it issued and its result:
\* Ok(array), NoValue (undefined) or Throw(error).
StorageQuery(block, pallet, item, accounts) ==
    [op |-> "queryStorage", blockHash |-> block.hash, pallet |-> pallet, item |-> item,
     keys |-> [i \in 1..Len(accounts) |-> <<accounts[i]>>]]

\* data.map((d) => ({free: d.data.free, reserved: d.data.reserved})):
\* d.data on an undefined entry is a property read of undefined
MapSystemData(data) ==
    IF \E i \in 1..Len(data) : data[i] = Undefined THEN Throw(TypeError)
    ELSE Ok([i \in 1..Len(data) |->
                [free |-> data[i].data.free, reserved |-> data[i].data.reserved]])

\* data.map((d) => ({free: d.free, reserved: d.reserved}))
MapBalancesData(data) ==
    IF \E i \in 1..Len(data) : data[i] = Undefined THEN Throw(TypeError)
    ELSE Ok([i \in 1..Len(data) |-> [free |-> data[i].free, reserved |-> data[i].reserved]])

getSystemAccountBalances(chain, storage, block, accounts) ==
    IF ~SystemAccountStorage_isExists(chain)
    THEN [queries |-> <<>>, result |-> NoValue]
    ELSE LET q == StorageQuery(block, "System", "Account", accounts) IN
         [queries |-> <<q>>,
          result |-> MapSystemData(queryStorage(storage, q.blockHash, q.pallet, q.item, q.keys))]

getBalancesAccountBalances(chain, storage, block, accounts) ==
    IF ~BalancesAccountStorage_isExists(chain)
    THEN [queries |-> <<>>, result |-> NoValue]
    ELSE LET q == StorageQuery(block, "Balances", "Account", accounts) IN
         [queries |-> <<q>>,
          result |-> MapBalancesData(queryStorage(storage, q.blockHash, q.pallet, q.item, q.keys))]

\* Faulty variant: an empty array counts as falsy
Truthy_EmptyIsFalsy(r) == r.tag = "ok" /\ r.val # <<>>

\* JS truthiness of what a resolver returns: an array, even an empty one, is
\* truthy; undefined is not
Truthy(r) == r.tag = "ok"

\* (await getSystemAccountBalances(..)) || (await getBalancesAccountBalances(..))
getBalances(chain, storage, block, accounts) ==
    LET s == getSystemAccountBalances(chain, storage, block, accounts) IN
    IF s.result.tag = "throw" \/ Truthy(s.result) THEN s
    ELSE LET b == getBalancesAccountBalances(chain, storage, block, accounts) IN
         [queries |-> s.queries \o b.queries, result |-> b.result]

\* assert(cond) with a false cond
AssertionError == [type |-> "AssertionError", name |-> "AssertionError"]

\* chain.getStorage(blockHash, pallet, item, key): the value stored under the
\* key, undefined when there is none
getStorage(storage, blockHash, pallet, item, key) == storage[blockHash][<<pallet, item>>][key]

StorageGet(blockHash, pallet, item, key) ==
    [op |-> "getStorage", blockHash |-> blockHash, pallet |-> pallet, item |-> item, key |-> key]

\* Each versioned read returns the chain calls it issued and its result:
\* Ok(value) or Throw(error).
\* assert(this.isVxxx); return this._chain.getStorage(this.blockHash, pallet, item, key)
getAs(isVersion, storage, blockHash, pallet, item, key) ==
    IF ~isVersion THEN [queries |-> <<>>, result |-> Throw(AssertionError)]
    ELSE [queries |-> <<StorageGet(blockHash, pallet, item, key)>>,
          result |-> Ok(getStorage(storage, blockHash, pallet, item, key))]

\* return this._chain.queryStorage(this.blockHash, pallet, item, keys.map(k => [k]))
queryMany(storage, blockHash, pallet, item, keys) ==
    LET q == StorageQuery([hash |-> blockHash], pallet, item, keys) IN
    [queries |-> <<q>>,
     result |-> Ok(queryStorage(storage, q.blockHash, q.pallet, q.item, q.keys))]

\* assert(this.isVxxx); return this._chain.queryStorage(..)
getManyAs(isVersion, storage, blockHash, pallet, item, keys) ==
    IF ~isVersion THEN [queries |-> <<>>, result |-> Throw(AssertionError)]
    ELSE queryMany(storage, blockHash, pallet, item, keys)

BalancesAccountStorage_getAsV1050(chain, storage, blockHash, key) ==
    getAs(BalancesAccountStorage_isV1050(chain), storage, blockHash, "Balances", "Account", key)

BalancesAccountStorage_getManyAsV1050(chain, storage, blockHash, keys) ==
    getManyAs(BalancesAccountStorage_isV1050(chain), storage, blockHash, "Balances", "Account", keys)

SystemAccountStorage_getAsV1050(chain, storage, blockHash, key) ==
    getAs(SystemAccountStorage_isV1050(chain), storage, blockHash, "System", "Account", key)

SystemAccountStorage_getManyAsV1050(chain, storage, blockHash, keys) ==
    getManyAs(SystemAccountStorage_isV1050(chain), storage, blockHash, "System", "Account", keys)

SystemAccountStorage_getAsV2025(chain, storage, blockHash, key) ==
    getAs(SystemAccountStorage_isV2025(chain), storage, blockHash, "System", "Account", key)

SystemAccountStorage_getManyAsV2025(chain, storage, blockHash, keys) ==
    getManyAs(SystemAccountStorage_isV2025(chain), storage, blockHash, "System", "Account", keys)

SystemAccountStorage_getAsV2028(chain, storage, blockHash, key) ==
    getAs(SystemAccountStorage_isV2028(chain), storage, blockHash, "System", "Account", key)

SystemAccountStorage_getManyAsV2028(chain, storage, blockHash, keys) ==
    getManyAs(SystemAccountStorage_isV2028(chain), storage, blockHash, "System", "Account", keys)

SystemAccountStorage_getAsV2030(chain, storage, blockHash, key) ==
    getAs(SystemAccountStorage_isV2030(chain), storage, blockHash, "System", "Account", key)

\* Faulty variant: the read is issued without the version check
SystemAccountStorage_getManyAsV2030_Unguarded(chain, storage, blockHash, keys) ==
    queryMany(storage, blockHash, "System", "Account", keys)

SystemAccountStorage_getManyAsV2030(chain, storage, blockHash, keys) ==
    getManyAs(SystemAccountStorage_isV2030(chain), storage, blockHash, "System", "Account", keys)

\* ------------------------------------------------ building the records
\* Faulty variant: total leaves the reserved balance out
Account_TotalIsFree(id, balance, height) ==
    [id |-> id, free |-> balance.free, reserved |-> balance.reserved,
     total |-> balance.free, updatedAt |-> height]

\* new Account({id, free, reserved, total: free + reserved, updatedAt})
Account(id, balance, height) ==
    [id |-> id, free |-> balance.free, reserved |-> balance.reserved,
     total |-> balance.free + balance.reserved, updatedAt |-> height]

\* Map<string, Account>.set: replaces the entry of an id in place, else appends
MapSet(m, rec) ==
    IF \E i \in 1..Len(m) : m[i].id = rec.id
    THEN [i \in 1..Len(m) |-> IF m[i].id = rec.id THEN rec ELSE m[i]]
    ELSE Append(m, rec)

\* for (let i = 0; i < accountIdsU8.length; i++) { ... accounts.set(id, ...) }
RECURSIVE BuildAccounts(_, _, _, _, _)
BuildAccounts(accountIdsU8, balances, height, i, accounts) ==
    IF i > Len(accountIdsU8) THEN accounts
    ELSE IF balances[i] = Undefined
    THEN BuildAccounts(accountIdsU8, balances, height, i + 1, accounts)
    ELSE BuildAccounts(accountIdsU8, balances, height, i + 1,
             MapSet(accounts, Account(encodeId(accountIdsU8[i]), balances[i], height)))

\* Faulty variant: the table is replaced by the saved entities
Save_Replace(table, entities) ==
    [id \in {entities[k].id : k \in 1..Len(entities)} |->
        (CHOOSE e \in Range(entities) : e.id = id)]

\* store.save(entities): insert-or-replace by primary key
RECURSIVE Save(_, _)
Save(table, entities) ==
    IF entities = <<>> THEN table
    ELSE Save([id \in DOMAIN table \cup {Head(entities).id} |->
                  IF id = Head(entities).id THEN Head(entities) ELSE table[id]],
              Tail(entities))

\* ------------------------------------------------------------------ inputs
Signed(id) == [__kind |-> "system", value |-> [__kind |-> "Signed", value |-> toHex(id)]]
NoneOrigin == [__kind |-> "system", value |-> [__kind |-> "None"]]
RootOrigin == [__kind |-> "system", value |-> [__kind |-> "Root"]]
CouncilOrigin == [__kind |-> "council", value |-> [__kind |-> "Members", value |-> <<1, 2>>]]

CallItem(parent, origin) ==
    [kind |-> "call", name |-> "Utility.batch", call |-> [parent |-> parent, origin |-> origin]]

ParentCall == [name |-> "Utility.batch"]

EventItem(name, version, args) ==
    [kind |-> "event", name |-> name,
     event |-> [name |-> name, hash |-> EventHash(name, version), args |-> args]]

\* the items of the batches of Spec: events and calls the handler accepts
Items ==
    { EventItem("Balances.Transfer", "V9130", [from |-> Alice, to |-> Bob, amount |-> 7]),
      EventItem("Balances.Endowed", "V1050", <<Bob, 3>>),
      CallItem(Undefined, Signed(Alice)),
      CallItem(ParentCall, Signed(Bob)) }

\* the items of the batches of SpecScan: every subscribed event, in a known
\* and in an unknown encoding, and every kind of call
AllItems ==
    Items \cup
    { EventItem("Balances.Transfer", "V1020", <<Bob, Alice, 5, 1>>),
      EventItem("Balances.Transfer", "V1050", <<Alice, Alice, 5>>),
      EventItem("Balances.Transfer", "V9999", <<Alice, Bob, 5>>),
      EventItem("Balances.BalanceSet", "V1031", <<Alice, 1, 0>>),
      EventItem("Balances.BalanceSet", "V9130", [who |-> Bob, free |-> 1, reserved |-> 0]),
      EventItem("Balances.BalanceSet", "V9999", <<Alice, 1, 0>>),
      EventItem("Balances.Endowed", "V9130", [account |-> Alice, freeBalance |-> 3]),
      EventItem("Balances.Deposit", "V1032", <<Alice, 2>>),
      EventItem("Balances.Deposit", "V9130", [who |-> Bob, amount |-> 2]),
      EventItem("Balances.Reserved", "V2008", <<Bob, 2>>),
      EventItem("Balances.Reserved", "V9130", [who |-> Alice, amount |-> 2]),
      EventItem("Balances.Unreserved", "V2008", <<Alice, 2>>),
      EventItem("Balances.Unreserved", "V9130", [who |-> Bob, amount |-> 2]),
      EventItem("Balances.Withdraw", "V9122", <<Bob, 2>>),
      EventItem("Balances.Withdraw", "V9130", [who |-> Alice, amount |-> 2]),
      EventItem("Balances.Slashed", "V9122", <<Alice, 2>>),
      EventItem("Balances.Slashed", "V9130", [who |-> Bob, amount |-> 2]),
      EventItem("Balances.ReserveRepatriated", "V2008", <<Bob, Alice, 2, 0>>),
      EventItem("Balances.ReserveRepatriated", "V9130", [from |-> Alice, to |-> Bob, amount |-> 2]),
      EventItem("Balances.ReserveRepatriated", "V9999", <<Alice, Bob, 2>>),
      CallItem(Undefined, NoneOrigin),
      CallItem(Undefined, RootOrigin),
      CallItem(Undefined, CouncilOrigin),
      CallItem(Undefined, Undefined),
      CallItem(ParentCall, Undefined) }

AccountInfo(free, reserved) ==
    [nonce |-> 0, data |-> [free |-> free, reserved |-> reserved]]

AccountData(free, reserved) == [free |-> free, reserved |-> reserved]

\* chain storage at one block: per storage item, the value stored under each key
StorageStates ==
    { (SystemAccount :> (Alice :> AccountInfo(10, 0) @@ Bob :> AccountInfo(5, 2)))
        @@ (BalancesAccount :> (Alice :> AccountData(1, 1) @@ Bob :> AccountData(2, 0))),
      (SystemAccount :> (Alice :> AccountInfo(7, 3) @@ Bob :> Undefined))
        @@ (BalancesAccount :> (Alice :> Undefined @@ Bob :> AccountData(0, 4))) }

UnknownHash == TypeHash("ffffffffffffffffffffffffffffffffffffffffffffffffffffffffffffffff")

Runtime(sys, bal) == [typeHash |-> (SystemAccount :> sys) @@ (BalancesAccount :> bal)]

SystemHashes ==
    { TypeHash("2208f857b7cd6fecf78ca393cf3d17ec424773727d0028f07c9f0dc608fc1b7a"),
      TypeHash("eb40f1d91f26d72e29c60e034d53a72b9b529014c7e108f422d8ad5f03f0c902"),
      TypeHash("73070b537f1805475b37167271b33ac7fd6ffad8ba62da08bc14937a017b8bb2"),
      TypeHash("1ddc7ade926221442c388ee4405a71c9428e548fab037445aaf4b3a78f4735c1") }

BalancesHashes ==
    { TypeHash("0b3b4bf0dd7388459eba461bc7c3226bf58608c941710a714e02f33ec0f91e78") }

\* every runtime: each storage item absent, in a known or in an unknown encoding
AllRuntimes ==
    { Runtime(sys, bal) : sys \in SystemHashes \cup {Undefined, UnknownHash},
                          bal \in BalancesHashes \cup {Undefined, UnknownHash} }

\* the runtimes of the batches of Spec (ctx._chain)
Runtimes ==
    { Runtime(TypeHash("1ddc7ade926221442c388ee4405a71c9428e548fab037445aaf4b3a78f4735c1"),
              TypeHash("0b3b4bf0dd7388459eba461bc7c3226bf58608c941710a714e02f33ec0f91e78")),
      Runtime(Undefined, TypeHash("0b3b4bf0dd7388459eba461bc7c3226bf58608c941710a714e02f33ec0f91e78")),
      Runtime(Undefined, Undefined),
      Runtime(UnknownHash, Undefined) }

\* the runtimes of the batches of SpecScan
ScanRuntimes ==
    { Runtime(TypeHash("1ddc7ade926221442c388ee4405a71c9428e548fab037445aaf4b3a78f4735c1"),
              TypeHash("0b3b4bf0dd7388459eba461bc7c3226bf58608c941710a714e02f33ec0f91e78")) }

\* the account lists getBalances is called with in SpecResolve
AccountLists == {<<>>, <<Alice>>, <<Bob>>, <<Alice, Bob>>, <<Bob, Alice>>}

BlockHash(height) == <<"block", height>>

Header(height) == [height |-> height, hash |-> BlockHash(height)]

ItemSeqs(items) == UNION {[1..k -> items] : k \in 0..MaxItems}

RECURSIVE PickItems(_, _, _, _)
PickItems(flat, at, b, k) ==
    IF k > Len(flat) THEN <<>>
    ELSE IF at[k] = b THEN <<flat[k]>> \o PickItems(flat, at, b, k + 1)
    ELSE PickItems(flat, at, b, k + 1)

\* the blocks of a batch: `flat` split over n blocks, item k in block at[k]
Blocks(first, n, flat, at) ==
    [b \in 1..n |-> [header |-> Header(first + b - 1), items |-> PickItems(flat, at, b, 1)]]

NoCtx == [blocks |-> <<>>, chain |-> Runtime(Undefined, Undefined)]

\* ------------------------------------------------ schema migrations
\* A column definition of a CREATE TABLE / ALTER TABLE ADD statement
Column(name, type, notNull) == [name |-> name, type |-> type, notNull |-> notNull]

\* SQL NULL
Null == [null |-> TRUE]

QueryFailedError == [type |-> "QueryFailedError", name |-> "QueryFailedError"]

\* The database: per table its columns and primary key, and the rows of the
\* account table by primary key (nothing in the repository writes snapshot)
Db(tables, rows) == [tables |-> tables, account |-> rows]

EmptyDb == Db(<<>>, <<>>)

ColumnNames(table) == {table.columns[i].name : i \in 1..Len(table.columns)}

\* the entity property a column of account is mapped to
ColumnField(column) == IF column = "updated_at" THEN "updatedAt" ELSE column

CreateTable(table, columns, constraint, key) ==
    [op |-> "CREATE TABLE", table |-> table, columns |-> columns,
     constraint |-> constraint, key |-> key]

AlterTableAdd(table, column) == [op |-> "ALTER TABLE ADD", table |-> table, column |-> column]

AlterTableDropColumn(table, column) ==
    [op |-> "ALTER TABLE DROP COLUMN", table |-> table, column |-> column]

DropTable(table) == [op |-> "DROP TABLE", table |-> table]

\* db.query(sql): the database after the statement, or the error it raises
query(db, sql) ==
    CASE sql.op = "CREATE TABLE" ->
            IF sql.table \in DOMAIN db.tables THEN Throw(QueryFailedError)
            ELSE Ok(Db([t \in DOMAIN db.tables \cup {sql.table} |->
                           IF t = sql.table
                           THEN [columns |-> sql.columns,
                                 pk |-> [constraint |-> sql.constraint, key |-> sql.key]]
                           ELSE db.tables[t]],
                       db.account))
      [] sql.op = "ALTER TABLE ADD" ->
            IF \/ sql.table \notin DOMAIN db.tables
               \/ sql.column.name \in ColumnNames(db.tables[sql.table])
               \/ (sql.column.notNull /\ sql.table = "account" /\ DOMAIN db.account # {})
            THEN Throw(QueryFailedError)
            ELSE Ok(Db([db.tables EXCEPT ![sql.table].columns = Append(@, sql.column)],
                       IF sql.table # "account" THEN db.account
                       ELSE [id \in DOMAIN db.account |->
                               [f \in DOMAIN db.account[id] \cup {ColumnField(sql.column.name)} |->
                                   IF f = ColumnField(sql.column.name) THEN Null
                                   ELSE db.account[id][f]]]))
      [] sql.op = "ALTER TABLE DROP COLUMN" ->
            IF \/ sql.table \notin DOMAIN db.tables
               \/ sql.column \notin ColumnNames(db.tables[sql.table])
               \/ sql.column = db.tables[sql.table].pk.key
            THEN Throw(QueryFailedError)
            ELSE Ok(Db([db.tables EXCEPT ![sql.table].columns =
                           SelectSeq(@, LAMBDA c : c.name # sql.column)],
                       IF sql.table # "account" THEN db.account
                       ELSE [id \in DOMAIN db.account |->
                               [f \in DOMAIN db.account[id] \ {ColumnField(sql.column)} |->
                                   db.account[id][f]]]))
      [] sql.op = "DROP TABLE" ->
            IF sql.table \notin DOMAIN db.tables THEN Throw(QueryFailedError)
            ELSE Ok(Db([t \in DOMAIN db.tables \ {sql.table} |-> db.tables[t]],
                       IF sql.table = "account" THEN <<>> ELSE db.account))

\* await db.query(..); await db.query(..): stops at the first that fails
RECURSIVE Queries_(_, _)
Queries_(db, statements) ==
    IF statements = <<>> THEN Ok(db)
    ELSE LET r == query(db, Head(statements)) IN
         IF r.tag = "throw" THEN r ELSE Queries_(r.val, Tail(statements))

AccountColumns ==
    << Column("id", "character varying", TRUE),
       Column("free", "numeric", TRUE),
       Column("reserved", "numeric", TRUE),
       Column("total", "numeric", TRUE) >>

SnapshotColumns ==
    << Column("id", "character varying", TRUE),
       Column("timestamp", "TIMESTAMP WITH TIME ZONE", TRUE),
       Column("holders_count", "integer", TRUE),
       Column("block_number", "integer", TRUE) >>

Init1655830554126_up(db) ==
    Queries_(db, << CreateTable("account", AccountColumns, "PK_54115ee388cdb6d86bb4bf5b2ea", "id"),
                    CreateTable("snapshot", SnapshotColumns, "PK_47b29c1a6055220b1ebdafdf7b5", "id") >>)

\* Faulty variant: the snapshot table is left behind
Init1655830554126_down_KeepsSnapshot(db) == Queries_(db, <<DropTable("account")>>)

Init1655830554126_down(db) ==
    Queries_(db, <<DropTable("account"), DropTable("snapshot")>>)

AddUpdatedAt1655843090639_up(db) ==
    Queries_(db, <<AlterTableAdd("account", Column("updated_at", "integer", FALSE))>>)

AddUpdatedAt1655843090639_down(db) ==
    Queries_(db, <<AlterTableDropColumn("account", "updated_at")>>)

\* the migrations in the order of their timestamps
Migrations == <<"Init1655830554126", "AddUpdatedAt1655843090639">>

up(name, db) ==
    IF name = "Init1655830554126" THEN Init1655830554126_up(db)
    ELSE AddUpdatedAt1655843090639_up(db)

down(name, db) ==
    IF name = "Init1655830554126" THEN Init1655830554126_down(db)
    ELSE AddUpdatedAt1655843090639_down(db)

\* the schema the pipeline runs on: every migration applied to an empty database
MigratedDb == up(Migrations[2], up(Migrations[1], EmptyDb).val).val

\* ------------------------------------------------------------------- state
VARIABLES
    pc,            \* "idle", "query", "save", "done", "failed": where the handler is
    ctx,           \* the batch context handed to processBalances
    chainStorage,  \* chain storage at each block of the batch, by block hash
    accountIdsHex, \* the working set
    accountIdsU8,  \* the working set decoded, in insertion order
    balances,      \* what getBalances returned: Ok(array), or NoValue
    accounts,      \* the records built for store.save
    store,         \* the persisted account table, by id
    log,           \* the external calls of the current batch, in order
    error,         \* the error the handler raised, if any
    head,          \* height of the last block delivered
    schema,        \* the tables of the database the store writes to
    migrations,    \* the migrations applied to the database, oldest first
    executed,      \* the migration operations run so far, in order
    invoked        \* the accessor method called, when one is called on its own

vars == <<pc, ctx, chainStorage, accountIdsHex, accountIdsU8, balances, accounts,
          store, log, error, head, schema, migrations, executed, invoked>>

\* what no step of the pipeline touches
migrationVars == <<schema, migrations, executed>>

NoCall == [class |-> "", method |-> "", keys |-> <<>>]

NoError == [type |-> "none", name |-> ""]

\* Faulty variant: the first block of the batch
LastBlock_First(c) == c.blocks[1]

\* ctx.blocks[ctx.blocks.length - 1]
LastBlock(c) == c.blocks[Len(c.blocks)]

Init ==
    /\ pc = "idle"
    /\ ctx = NoCtx
    /\ chainStorage = <<>>
    /\ accountIdsHex = <<>>
    /\ accountIdsU8 = <<>>
    /\ balances = NoValue
    /\ accounts = <<>>
    /\ store = <<>>
    /\ log = <<>>
    /\ error = NoError
    /\ head = StartBlock - 1
    /\ schema = MigratedDb.tables
    /\ migrations = Migrations
    /\ executed = <<[name |-> Migrations[1], op |-> "up"], [name |-> Migrations[2], op |-> "up"]>>
    /\ invoked = NoCall

\* Faulty variant: the early return is never taken
WorkingSetEmpty_Never(set) == Len(set) < 0

\* if (accountIdsHex.size === 0) return
WorkingSetEmpty(set) == Len(set) = 0

\* [...accountIdsHex].map((id) => decodeHex(id))
DecodeAll(set) == [i \in 1..Len(set) |-> decodeHex(set[i])]

\* processBalances from its call to its first wait on the outside world:
\* the scan of every block, the empty check, and getBalances up to its query
Start(c, storage) ==
    LET scan == ScanBlocks(c.blocks, <<>>) IN
    IF scan.tag = "throw"
    THEN [pc |-> "failed", set |-> <<>>, u8 |-> <<>>, log |-> <<>>, error |-> scan.err]
    ELSE IF WorkingSetEmpty(scan.val)
    THEN [pc |-> "done", set |-> scan.val, u8 |-> <<>>, log |-> <<>>, error |-> NoError]
    ELSE LET u8 == DecodeAll(scan.val)
             g  == getBalances(c.chain, storage, LastBlock(c).header, u8)
         IN IF g.queries # <<>>
            THEN [pc |-> "query", set |-> scan.val, u8 |-> u8, log |-> g.queries, error |-> NoError]
            ELSE [pc |-> "done", set |-> scan.val, u8 |-> u8,
                  log |-> <<[op |-> "warn", msg |-> "No balances"]>>, error |-> NoError]

\* processBalances from the return of the storage query to its call of
\* store.save: the rest of getBalances and the record loop
Resume(c, storage, u8) ==
    LET g == getBalances(c.chain, storage, LastBlock(c).header, u8) IN
    IF g.result.tag = "throw"
    THEN [pc |-> "failed", balances |-> NoValue, accounts |-> <<>>, error |-> g.result.err]
    ELSE [pc |-> "save", balances |-> g.result,
          accounts |-> BuildAccounts(u8, g.result.val, LastBlock(c).header.height, 1, <<>>),
          error |-> NoError]

SaveCall(entities) == [op |-> "save", entities |-> entities]

InfoCall(n) == [op |-> "info", msg |-> <<"updated", n>>]

\* processBalances as a whole: the error it raises and its external calls
processBalances(c, storage) ==
    LET s == Start(c, storage) IN
    IF s.pc # "query" THEN [error |-> s.error, log |-> s.log]
    ELSE LET r == Resume(c, storage, s.u8) IN
         IF r.pc = "failed" THEN [error |-> r.error, log |-> s.log]
         ELSE [error |-> NoError,
               log |-> s.log \o <<SaveCall(r.accounts), InfoCall(Len(r.accounts))>>]

\* The framework hands the next batch to processBalances
Deliver(items, runtimes) ==
    /\ pc = "idle"
    /\ \E n \in 1..MaxHeight, flat \in ItemSeqs(items), chain \in runtimes :
         \E at \in [1..Len(flat) -> 1..n], last \in StorageStates, earlier \in StorageStates :
            /\ head + n <= StartBlock - 1 + MaxHeight
            /\ \A k \in 1..Len(flat) - 1 : at[k] <= at[k + 1]
            /\ n = 1 => earlier = last
            /\ LET c == [blocks |-> Blocks(head + 1, n, flat, at), chain |-> chain]
                   storage == [h \in {BlockHash(head + b) : b \in 1..n} |->
                                  IF h = BlockHash(head + n) THEN last ELSE earlier]
                   r == Start(c, storage)
               IN /\ ctx' = c
                  /\ chainStorage' = storage
                  /\ pc' = r.pc
                  /\ accountIdsHex' = r.set
                  /\ accountIdsU8' = r.u8
                  /\ log' = r.log
                  /\ error' = r.error
                  /\ head' = head + n
    /\ balances' = NoValue
    /\ accounts' = <<>>
    /\ UNCHANGED <<store, migrationVars, invoked>>

\* The storage query returns
QueryReturn ==
    /\ pc = "query"
    /\ LET r == Resume(ctx, chainStorage, accountIdsU8) IN
         /\ pc' = r.pc
         /\ balances' = r.balances
         /\ accounts' = r.accounts
         /\ error' = r.error
         /\ log' = IF r.pc = "save" THEN Append(log, SaveCall(r.accounts)) ELSE log
    /\ UNCHANGED <<ctx, chainStorage, accountIdsHex, accountIdsU8, store, head, migrationVars, invoked>>

\* store.save returns: the records are persisted and the count is logged
SaveReturn ==
    /\ pc = "save"
    /\ store' = Save(store, accounts)
    /\ log' = Append(log, InfoCall(Len(accounts)))
    /\ pc' = "done"
    /\ UNCHANGED <<ctx, chainStorage, accountIdsHex, accountIdsU8, balances, accounts,
                   error, head, migrationVars, invoked>>

\* processBalances has returned: its locals are gone, the framework goes on
Finish ==
    /\ pc = "done"
    /\ pc' = "idle"
    /\ ctx' = NoCtx
    /\ chainStorage' = <<>>
    /\ accountIdsHex' = <<>>
    /\ accountIdsU8' = <<>>
    /\ balances' = NoValue
    /\ accounts' = <<>>
    /\ log' = <<>>
    /\ UNCHANGED <<store, error, head, migrationVars, invoked>>

Next == Deliver(Items, Runtimes) \/ QueryReturn \/ SaveReturn \/ Finish

Spec == Init /\ [][Next]_vars

\* The same pipeline over every kind of item, under one runtime
NextScan == Deliver(AllItems, ScanRuntimes) \/ QueryReturn \/ SaveReturn \/ Finish

SpecScan == Init /\ [][NextScan]_vars

\* One call of getBalances on a block, under every runtime and for every
\* account list, the empty one included
Resolve ==
    /\ pc = "idle"
    /\ head = StartBlock - 1
    /\ \E chain \in AllRuntimes, st \in StorageStates, accs \in AccountLists :
         LET block == Header(head + 1)
             storage == (block.hash :> st)
             g == getBalances(chain, storage, block, accs)
         IN /\ ctx' = [blocks |-> <<[header |-> block, items |-> <<>>]>>, chain |-> chain]
            /\ chainStorage' = storage
            /\ accountIdsU8' = accs
            /\ log' = g.queries
            /\ balances' = IF g.result.tag = "throw" THEN NoValue ELSE g.result
            /\ error' = IF g.result.tag = "throw" THEN g.result.err ELSE NoError
            /\ pc' = IF g.result.tag = "throw" THEN "failed" ELSE "done"
    /\ head' = head + 1
    /\ UNCHANGED <<accountIdsHex, accounts, store, migrationVars, invoked>>

NextResolve == Resolve

SpecResolve == Init /\ [][NextResolve]_vars

\* ------------------------------------------------ running the migrations
\* A fresh database, before any migration and before the pipeline
InitMigrate ==
    /\ pc = "idle"
    /\ ctx = NoCtx
    /\ chainStorage = <<>>
    /\ accountIdsHex = <<>>
    /\ accountIdsU8 = <<>>
    /\ balances = NoValue
    /\ accounts = <<>>
    /\ store = <<>>
    /\ log = <<>>
    /\ error = NoError
    /\ head = StartBlock - 1
    /\ schema = EmptyDb.tables
    /\ migrations = <<>>
    /\ executed = <<>>
    /\ invoked = NoCall

pipelineVars == <<ctx, chainStorage, accountIdsHex, accountIdsU8, balances, accounts, log, head,
                  invoked>>

\* The operator applies the oldest migration not yet applied
MigrationUp ==
    /\ pc = "idle"
    /\ Len(executed) < MaxRuns
    /\ Len(migrations) < Len(Migrations)
    /\ LET name == Migrations[Len(migrations) + 1]
           r == up(name, Db(schema, store))
       IN /\ executed' = Append(executed, [name |-> name, op |-> "up"])
          /\ IF r.tag = "throw"
             THEN /\ pc' = "failed"
                  /\ error' = r.err
                  /\ UNCHANGED <<schema, store, migrations>>
             ELSE /\ schema' = r.val.tables
                  /\ store' = r.val.account
                  /\ migrations' = Append(migrations, name)
                  /\ UNCHANGED <<pc, error>>
    /\ UNCHANGED pipelineVars

\* The operator reverts the migration applied last
MigrationRevert ==
    /\ pc = "idle"
    /\ Len(executed) < MaxRuns
    /\ migrations # <<>>
    /\ LET name == migrations[Len(migrations)]
           r == down(name, Db(schema, store))
       IN /\ executed' = Append(executed, [name |-> name, op |-> "down"])
          /\ IF r.tag = "throw"
             THEN /\ pc' = "failed"
                  /\ error' = r.err
                  /\ UNCHANGED <<schema, store, migrations>>
             ELSE /\ schema' = r.val.tables
                  /\ store' = r.val.account
                  /\ migrations' = SubSeq(migrations, 1, Len(migrations) - 1)
                  /\ UNCHANGED <<pc, error>>
    /\ UNCHANGED pipelineVars

\* the balances of the records written between migrations
RowBalances == {AccountData(1, 1), AccountData(0, 4)}

\* The pipeline persists a record: the account table must hold every column
\* of the Account entity
SaveRecord ==
    /\ pc = "idle"
    /\ "account" \in DOMAIN schema
    /\ {"id", "free", "reserved", "total", "updated_at"} \subseteq ColumnNames(schema["account"])
    /\ \E a \in AccountIds, b \in RowBalances :
          store' = Save(store, <<Account(encodeId(a), b, StartBlock)>>)
    /\ UNCHANGED <<pc, error, pipelineVars, migrationVars>>

NextMigrate == MigrationUp \/ MigrationRevert \/ SaveRecord

SpecMigrate == InitMigrate /\ [][NextMigrate]_vars

\* ------------------------------------------------ calling the accessors
Method(class, method) == [class |-> class, method |-> method]

AccessorMethods ==
    { Method("BalancesAccountStorage", m) : m \in {"getAsV1050", "getManyAsV1050"} }
    \cup { Method("SystemAccountStorage", m) :
             m \in {"getAsV1050", "getManyAsV1050", "getAsV2025", "getManyAsV2025",
                    "getAsV2028", "getManyAsV2028", "getAsV2030", "getManyAsV2030"} }

SingleKeyMethods == {"getAsV1050", "getAsV2025", "getAsV2028", "getAsV2030"}

\* new XxxStorage(ctx, block).method(keys)
Invoke(m, chain, storage, blockHash, keys) ==
    IF m.class = "BalancesAccountStorage"
    THEN CASE m.method = "getAsV1050" ->
                 BalancesAccountStorage_getAsV1050(chain, storage, blockHash, keys[1])
           [] m.method = "getManyAsV1050" ->
                 BalancesAccountStorage_getManyAsV1050(chain, storage, blockHash, keys)
    ELSE CASE m.method = "getAsV1050" ->
                 SystemAccountStorage_getAsV1050(chain, storage, blockHash, keys[1])
           [] m.method = "getManyAsV1050" ->
                 SystemAccountStorage_getManyAsV1050(chain, storage, blockHash, keys)
           [] m.method = "getAsV2025" ->
                 SystemAccountStorage_getAsV2025(chain, storage, blockHash, keys[1])
           [] m.method = "getManyAsV2025" ->
                 SystemAccountStorage_getManyAsV2025(chain, storage, blockHash, keys)
           [] m.method = "getAsV2028" ->
                 SystemAccountStorage_getAsV2028(chain, storage, blockHash, keys[1])
           [] m.method = "getManyAsV2028" ->
                 SystemAccountStorage_getManyAsV2028(chain, storage, blockHash, keys)
           [] m.method = "getAsV2030" ->
                 SystemAccountStorage_getAsV2030(chain, storage, blockHash, keys[1])
           [] m.method = "getManyAsV2030" ->
                 SystemAccountStorage_getManyAsV2030(chain, storage, blockHash, keys)

\* One versioned read of an accessor built on a block, under every runtime
CallAccessor ==
    /\ pc = "idle"
    /\ head = StartBlock - 1
    /\ \E chain \in AllRuntimes, st \in StorageStates, m \in AccessorMethods, keys \in AccountLists :
         /\ m.method \in SingleKeyMethods => Len(keys) = 1
         /\ LET block == Header(head + 1)
                storage == (block.hash :> st)
                r == Invoke(m, chain, storage, block.hash, keys)
            IN /\ ctx' = [blocks |-> <<[header |-> block, items |-> <<>>]>>, chain |-> chain]
               /\ chainStorage' = storage
               /\ invoked' = [class |-> m.class, method |-> m.method, keys |-> keys]
               /\ log' = r.queries
               /\ balances' = IF r.result.tag = "throw" THEN NoValue ELSE r.result
               /\ error' = IF r.result.tag = "throw" THEN r.result.err ELSE NoError
               /\ pc' = IF r.result.tag = "throw" THEN "failed" ELSE "done"
    /\ head' = head + 1
    /\ UNCHANGED <<accountIdsHex, accountIdsU8, accounts, store, migrationVars>>

NextAccessor == CallAccessor

SpecAccessor == Init /\ [][NextAccessor]_vars

\* ------------------------------------------------------------- properties
\* What the claims speak of, stated on the batch and on chain storage alone.

InBatch == ctx # NoCtx

Returned == pc \in {"done", "failed"}

\* every item of the batch, in arrival order
RECURSIVE AllItemsOf(_)
AllItemsOf(blocks) ==
    IF blocks = <<>> THEN <<>> ELSE Head(blocks).items \o AllItemsOf(Tail(blocks))

BatchItems == AllItemsOf(ctx.blocks)

SubscribedEvents ==
    {"Balances.Endowed", "Balances.Transfer", "Balances.BalanceSet", "Balances.Reserved",
     "Balances.Unreserved", "Balances.ReserveRepatriated", "Balances.Deposit",
     "Balances.Withdraw", "Balances.Slashed"}

IsSignedTopLevelCall(item) ==
    /\ item.kind = "call"
    /\ item.call.parent = Undefined
    /\ item.call.origin # Undefined
    /\ item.call.origin.__kind = "system"
    /\ item.call.origin.value.__kind = "Signed"

IsSubscribedEvent(item) == item.kind = "event" /\ item.name \in SubscribedEvents

Queries == {i \in 1..Len(log) : log[i].op = "queryStorage"}
Saves   == {i \in 1..Len(log) : log[i].op = "save"}

SystemExists   == ctx.chain.typeHash[SystemAccount] # Undefined
BalancesExists == ctx.chain.typeHash[BalancesAccount] # Undefined

LastHash   == ctx.blocks[Len(ctx.blocks)].header.hash
LastHeight == ctx.blocks[Len(ctx.blocks)].header.height

\* what chain storage holds for account a at the batch's last block, in the
\* storage item the resolution strategy selects
StoredValue(a) ==
    IF SystemExists THEN chainStorage[LastHash][SystemAccount][a]
    ELSE chainStorage[LastHash][BalancesAccount][a]

\* the (free, reserved) pair chain storage reports for a
Reported(a) ==
    IF SystemExists
    THEN [free |-> StoredValue(a).data.free, reserved |-> StoredValue(a).data.reserved]
    ELSE [free |-> StoredValue(a).free, reserved |-> StoredValue(a).reserved]

\* C1: every persisted Account record satisfies total = free + reserved.
C1_TotalIsSum ==
    \A id \in DOMAIN store : store[id].total = store[id].free + store[id].reserved

\* C1 witness: a record with a non-zero reserved balance persisted by one
\* batch is still there after a later batch persisted another record.
C1_Witness ==
    /\ pc = "done"
    /\ Cardinality(DOMAIN store) = 2
    /\ \E id \in DOMAIN store : store[id].reserved > 0 /\ store[id].updatedAt < LastHeight
    /\ \E id \in DOMAIN store : store[id].updatedAt = LastHeight

\* C2: a batch with no subscribed event and no top-level directly-signed
\* call makes no storage query and no store.save call.
C2_EmptyBatchNoOp ==
    (InBatch /\ \A i \in 1..Len(BatchItems) :
                   ~IsSubscribedEvent(BatchItems[i]) /\ ~IsSignedTopLevelCall(BatchItems[i]))
        => /\ pc = "done"
           /\ Queries = {}
           /\ Saves = {}
           /\ log = <<>>

\* C2 witness: the handler has returned from a batch of two blocks holding
\* only calls that are not top-level, under a runtime where System.Account
\* exists.
C2_Witness ==
    /\ pc = "done"
    /\ InBatch
    /\ Len(ctx.blocks) = 2
    /\ Len(BatchItems) = 2
    /\ \A i \in 1..Len(BatchItems) : BatchItems[i].kind = "call" /\ ~IsSignedTopLevelCall(BatchItems[i])
    /\ SystemExists
    /\ log = <<>>

\* C3: getBalances queries System.Account, and takes every balance from its
\* nested data.free / data.reserved, whenever System.Account exists, also
\* for an empty account list; it queries Balances.Account only when
\* System.Account does not exist; it returns no result exactly when neither
\* exists.
C3_SystemFirst ==
    Returned =>
      /\ SystemExists =>
           /\ log = <<StorageQuery(Header(head), "System", "Account", accountIdsU8)>>
           /\ balances.tag = "ok" \/ error = TypeError
           /\ balances.tag = "ok" =>
                /\ Len(balances.val) = Len(accountIdsU8)
                /\ \A i \in 1..Len(accountIdsU8) :
                      LET v == chainStorage[LastHash][SystemAccount][accountIdsU8[i]] IN
                      balances.val[i] = [free |-> v.data.free, reserved |-> v.data.reserved]
      /\ (~SystemExists /\ BalancesExists) =>
           /\ log = <<StorageQuery(Header(head), "Balances", "Account", accountIdsU8)>>
           /\ balances.tag = "ok" =>
                \A i \in 1..Len(accountIdsU8) :
                   LET v == chainStorage[LastHash][BalancesAccount][accountIdsU8[i]] IN
                   balances.val[i] = [free |-> v.free, reserved |-> v.reserved]
      /\ (\E i \in Queries : log[i].pallet = "Balances") => ~SystemExists
      /\ (balances = NoValue /\ error = NoError) <=> (~SystemExists /\ ~BalancesExists)

\* C3 witness: both storage items exist and getBalances has returned an
\* empty array for the empty account list.
C3_Witness ==
    /\ pc = "done"
    /\ SystemExists /\ BalancesExists
    /\ accountIdsU8 = <<>>
    /\ balances = Ok(<<>>)

\* C3 witness of the values: both exist, hold different values for an
\* account, and the System.Account value was returned.
C3_WitnessValues ==
    /\ pc = "done"
    /\ SystemExists /\ BalancesExists
    /\ accountIdsU8 = <<Bob, Alice>>
    /\ balances = Ok(<<[free |-> 5, reserved |-> 2], [free |-> 10, reserved |-> 0]>>)
    /\ chainStorage[LastHash][BalancesAccount][Bob] = AccountData(2, 0)

\* the record the pipeline is to persist for account a of the current batch
ExpectedRecord(a) ==
    [id |-> encodeId(a), free |-> Reported(a).free, reserved |-> Reported(a).reserved,
     total |-> Reported(a).free + Reported(a).reserved, updatedAt |-> LastHeight]

\* the accounts the items of the batch name, whichever block carries them
Named ==
    {a \in AccountIds : \E i \in 1..Len(accountIdsHex) : accountIdsHex[i] = toHex(a)}

C4_Step ==
    /\ pc = "save" =>
         \A a \in Named :
            /\ encodeId(a) \in DOMAIN store'
            /\ store'[encodeId(a)] = ExpectedRecord(a)
    /\ \A id \in DOMAIN store' :
          \/ id \in DOMAIN store /\ store'[id] = store[id]
          \/ pc = "save" /\ \E a \in Named : id = encodeId(a)

\* C4: the save of a batch leaves, for every account a the batch resolved,
\* under key encode(a), the (free, reserved) pair chain storage holds for a at
\* the batch's last block, with updatedAt that block's height; and a record
\* changes in no other step, so each record is that of the most recent batch
\* that resolved its account.
C4_PersistsReported == [][C4_Step]_vars

\* C4 witness: a batch of two blocks whose storage differs, with its only
\* item in the first block, has persisted two accounts with their own pairs as
\* of the last block.
C4_Witness ==
    /\ pc = "done"
    /\ Len(ctx.blocks) = 2
    /\ Len(ctx.blocks[1].items) = 1 /\ ctx.blocks[2].items = <<>>
    /\ chainStorage[ctx.blocks[1].header.hash] # chainStorage[LastHash]
    /\ Named = {Alice, Bob}
    /\ Saves # {}
    /\ Reported(Alice) # Reported(Bob)
    /\ \A a \in Named : encodeId(a) \in DOMAIN store /\ store[encodeId(a)] = ExpectedRecord(a)

\* the amounts an event can carry instead
AltAmounts == {0, 1}

AccountFields == {"who", "from", "to", "account"}

PairEvents == {"Balances.Transfer", "Balances.ReserveRepatriated"}

\* the item with every amount it carries replaced by v
WithAmount(item, v) ==
    IF item.kind # "event" THEN item
    ELSE LET args == item.event.args IN
         [item EXCEPT !.event.args =
            IF item.event.hash[2] = "V9130"
            THEN [f \in DOMAIN args |-> IF f \in AccountFields THEN args[f] ELSE v]
            ELSE [k \in DOMAIN args |->
                    IF k <= (IF item.name \in PairEvents THEN 2 ELSE 1) THEN args[k] ELSE v]]

\* the batch with every event amount replaced by v
WithAmounts(c, v) ==
    [c EXCEPT !.blocks =
        [b \in 1..Len(c.blocks) |->
            [c.blocks[b] EXCEPT !.items =
                [k \in 1..Len(c.blocks[b].items) |-> WithAmount(c.blocks[b].items[k], v)]]]]

\* C5: the handler's storage queries, the records it saves and the error it
\* raises are those of the same batch with every event amount replaced.
C5_AmountsIgnored ==
    (InBatch /\ Returned) =>
        \A v \in AltAmounts :
            processBalances(WithAmounts(ctx, v), chainStorage) = [error |-> error, log |-> log]

\* C5 witness: a batch with a transfer has persisted records, and the same
\* batch with other amounts is a different batch.
C5_Witness ==
    /\ pc = "done"
    /\ \E i \in 1..Len(BatchItems) : BatchItems[i].name = "Balances.Transfer"
    /\ \A v \in AltAmounts : WithAmounts(ctx, v) # ctx
    /\ \E i \in Saves : Len(log[i].entities) = 2

\* the storage item the resolution strategy selects holds no value for a
Absent(a) == StoredValue(a) = Undefined

\* C6 (as claimed): when the balance source exists but holds no value for an
\* account of the batch, the handler raises nothing, writes no record for
\* that account, and persists the record of every other account.
C6_AbsentKeySkipped ==
    (InBatch /\ Returned /\ (SystemExists \/ BalancesExists) /\ \E a \in Named : Absent(a))
        => /\ error = NoError
           /\ \A a \in Named :
                IF Absent(a)
                THEN \A i \in Saves : \A k \in 1..Len(log[i].entities) :
                        log[i].entities[k].id # encodeId(a)
                ELSE encodeId(a) \in DOMAIN store /\ store[encodeId(a)] = ExpectedRecord(a)

\* the encodings each decoder knows
KnownVersions(name) ==
    CASE name = "Balances.BalanceSet" -> {"V1031", "V9130"}
      [] name = "Balances.Transfer" -> {"V1020", "V1050", "V9130"}
      [] name = "Balances.Endowed" -> {"V1050", "V9130"}
      [] name = "Balances.Deposit" -> {"V1032", "V9130"}
      [] name = "Balances.Reserved" -> {"V2008", "V9130"}
      [] name = "Balances.Unreserved" -> {"V2008", "V9130"}
      [] name = "Balances.Withdraw" -> {"V9122", "V9130"}
      [] name = "Balances.Slashed" -> {"V9122", "V9130"}
      [] name = "Balances.ReserveRepatriated" -> {"V2008", "V9130"}
      [] OTHER -> {}

DecoderName(name) ==
    CASE name = "Balances.BalanceSet" -> "BalancesBalanceSetEvent"
      [] name = "Balances.Transfer" -> "BalancesTransferEvent"
      [] name = "Balances.Endowed" -> "BalancesEndowedEvent"
      [] name = "Balances.Deposit" -> "BalancesDepositEvent"
      [] name = "Balances.Reserved" -> "BalancesReservedEvent"
      [] name = "Balances.Unreserved" -> "BalancesUnreservedEvent"
      [] name = "Balances.Withdraw" -> "BalancesWithdrawEvent"
      [] name = "Balances.Slashed" -> "BalancesSlashedEvent"
      [] name = "Balances.ReserveRepatriated" -> "BalancesReserveRepatriatedEvent"
      [] OTHER -> ""

IsUnknownVersionEvent(item) ==
    /\ IsSubscribedEvent(item)
    /\ \A v \in KnownVersions(item.name) : item.event.hash # EventHash(item.name, v)

\* C7 (as claimed): a batch holding a subscribed event in an encoding its
\* decoder does not know ends in UnknownVersionError naming the decoder of
\* such an event, with no storage query and no store.save call.
C7_UnknownEventFatal ==
    (InBatch /\ \E i \in 1..Len(BatchItems) : IsUnknownVersionEvent(BatchItems[i]))
        => /\ pc = "failed"
           /\ error.type = "UnknownVersionError"
           /\ \E i \in 1..Len(BatchItems) :
                 /\ IsUnknownVersionEvent(BatchItems[i])
                 /\ error.name = DecoderName(BatchItems[i].name)
           /\ Queries = {} /\ Saves = {}

\* C8: with a non-empty working set and neither System.Account nor
\* Balances.Account existing, the handler makes no storage query and no
\* store.save call and returns without an error, after a warning, so that the
\* framework goes on to the next batch.
C8_NoSourceNoOp ==
    (InBatch /\ accountIdsHex # <<>> /\ ~SystemExists /\ ~BalancesExists)
        => /\ pc = "done"
           /\ error = NoError
           /\ Queries = {} /\ Saves = {}
           /\ log = <<[op |-> "warn", msg |-> "No balances"]>>
           /\ ENABLED Finish

\* C8 witness: the handler has returned from a batch naming two accounts
\* under a runtime with neither storage item, with records persisted by an
\* earlier batch still in place.
C8_Witness ==
    /\ pc = "done"
    /\ Named = {Alice, Bob}
    /\ ~SystemExists /\ ~BalancesExists
    /\ DOMAIN store # {}
    /\ head < StartBlock - 1 + MaxHeight

\* the storage item the resolution strategy selects exists in an encoding
\* none of its accessor's predicates matches
UnknownStorageVersion ==
    IF SystemExists
    THEN ~(\/ SystemAccountStorage_isV1050(ctx.chain)
           \/ SystemAccountStorage_isV2025(ctx.chain)
           \/ SystemAccountStorage_isV2028(ctx.chain)
           \/ SystemAccountStorage_isV2030(ctx.chain))
    ELSE BalancesExists /\ ~BalancesAccountStorage_isV1050(ctx.chain)

\* C9 (as claimed): when the storage item used for resolution exists in an
\* unknown encoding the batch persists nothing and ends in
\* UnknownVersionError.  Stated for the batches whose accounts all have a
\* stored value.
C9_UnknownStorageFatal ==
    (InBatch /\ accountIdsHex # <<>> /\ UnknownStorageVersion /\ \A a \in Named : ~Absent(a))
        => /\ Saves = {}
           /\ Returned => (pc = "failed" /\ error.type = "UnknownVersionError")

\* C10 (as claimed): a call item adds its signer to the candidate set exactly
\* when it is top-level and directly signed; any other call item leaves the
\* set as it is and raises nothing.
C10_CallCandidates ==
    InBatch =>
        \A i \in 1..Len(BatchItems) : \A set \in {<<>>, <<toHex(Bob)>>} :
            BatchItems[i].kind = "call" =>
                processBalancesCallItem(BatchItems[i], set)
                    = IF IsSignedTopLevelCall(BatchItems[i])
                      THEN Ok(SetAdd(set, BatchItems[i].call.origin.value.value))
                      ELSE Ok(set)

\* the tables after the first n migrations were applied to an empty database
RECURSIVE TablesAfter(_)
TablesAfter(n) ==
    IF n = 0 THEN EmptyDb.tables
    ELSE up(Migrations[n], Db(TablesAfter(n - 1), <<>>)).val.tables

Applied(name, op) == [name |-> name, op |-> op]

\* C11: each migration's down undoes its up: wherever up succeeds, down applied
\* to its result gives back the database it started from, rows included; the
\* tables are at every moment those of the applied migrations on an empty
\* database, so with Init and AddUpdatedAt applied the account table has
\* exactly the columns id, free, reserved, total, updated_at next to a
\* snapshot table, and with both reverted there is no account and no snapshot
\* table.
C11_MigrationsInverse ==
    /\ \A k \in 1..Len(Migrations) :
          LET r == up(Migrations[k], Db(schema, store)) IN
          r.tag = "ok" => down(Migrations[k], r.val) = Ok(Db(schema, store))
    /\ pc = "idle" /\ error = NoError
    /\ schema = TablesAfter(Len(migrations))
    /\ migrations = SubSeq(Migrations, 1, Len(migrations))
    /\ migrations = Migrations =>
          /\ DOMAIN schema = {"account", "snapshot"}
          /\ ColumnNames(schema["account"]) = {"id", "free", "reserved", "total", "updated_at"}
    /\ migrations = <<>> => DOMAIN schema = {} /\ DOMAIN store = {}

\* C11 witness: Init and AddUpdatedAt were applied to the empty database, then
\* AddUpdatedAt and Init were reverted, and no table is left.
C11_Witness ==
    /\ executed = << Applied("Init1655830554126", "up"),
                     Applied("AddUpdatedAt1655843090639", "up"),
                     Applied("AddUpdatedAt1655843090639", "down"),
                     Applied("Init1655830554126", "down") >>
    /\ migrations = <<>>
    /\ DOMAIN schema = {}

\* C11 witness of the rows: AddUpdatedAt is reverted over records the pipeline
\* had written, and can be applied to them again.
C11_WitnessRows ==
    /\ migrations = <<Migrations[1]>>
    /\ Cardinality(DOMAIN store) = 2
    /\ executed[Len(executed)] = Applied("AddUpdatedAt1655843090639", "down")
    /\ up(Migrations[2], Db(schema, store)).tag = "ok"

\* the hex string of each raw account id
AccountHex == [a \in AccountIds |-> toHex(a)]

\* the accounts an item names: the signer of a top-level directly-signed
\* call, the account fields of a subscribed event
ItemAccounts(item) ==
    IF IsSignedTopLevelCall(item)
    THEN {a \in AccountIds : AccountHex[a] = item.call.origin.value.value}
    ELSE IF ~IsSubscribedEvent(item) THEN {}
    ELSE LET args == item.event.args IN
         IF item.event.hash[2] = "V9130"
         THEN {args[f] : f \in DOMAIN args \cap AccountFields}
         ELSE {args[k] : k \in 1..(IF item.name \in PairEvents THEN 2 ELSE 1)}

\* the accounts the items of all blocks of the batch name
BatchAccounts ==
    LET items == BatchItems IN UNION {ItemAccounts(items[i]) : i \in 1..Len(items)}

Distinct(s) == \A k, l \in 1..Len(s) : s[k] = s[l] => k = l

\* the external calls of the current batch: at most one storage query, over
\* the accounts of every block's items, each once, on the last block; at most
\* one save, after the query, with one record per address
C12_Batch ==
    LET queries == Queries
        saves == Saves
    IN /\ Cardinality(queries) <= 1
       /\ Cardinality(saves) <= 1
       /\ \A i \in queries, j \in saves : i < j
       /\ saves # {} => queries # {}
       /\ queries # {} =>
             LET named == BatchAccounts IN
             /\ \A i \in queries :
                   /\ log[i].blockHash = LastHash
                   /\ Distinct(log[i].keys)
                   /\ Range(log[i].keys) = {<<a>> : a \in named}
             /\ \A j \in saves :
                   /\ Distinct([k \in 1..Len(log[j].entities) |-> log[j].entities[k].id])
                   /\ {log[j].entities[k].id : k \in 1..Len(log[j].entities)}
                         \subseteq {encodeId(a) : a \in named}

C12_Step ==
    /\ log' # log => C12_Batch'
    /\ (ctx' # ctx /\ ctx' # NoCtx) => (pc = "idle" /\ log = <<>>)
    /\ (pc \in {"query", "save"}) => ctx' = ctx

\* C12: within one batch the handler makes at most one multi-key storage
\* query, over the deduplicated accounts of all blocks' items, and at most one
\* save, after the query, holding at most one record per address; a batch is
\* handed to the handler only after the handler returned from the one before.
C12_OneReadOneWrite == [][C12_Step]_vars

\* C12 witness: a batch of two blocks whose items name Bob in both blocks and
\* Alice once has returned after one query with two keys and one save of two
\* records.
C12_Witness ==
    /\ pc = "done"
    /\ Len(ctx.blocks) = 2
    /\ \A b \in 1..2 : \E k \in 1..Len(ctx.blocks[b].items) :
          Bob \in ItemAccounts(ctx.blocks[b].items[k])
    /\ BatchAccounts = {Alice, Bob}
    /\ Len(log) = 3
    /\ log[1].op = "queryStorage" /\ Len(log[1].keys) = 2
    /\ log[2].op = "save" /\ Len(log[2].entities) = 2
    /\ log[3].op = "info"

\* a step changes or creates the record under id
Written(id) == id \notin DOMAIN store \/ store'[id] # store[id]

C13_Step ==
    /\ DOMAIN store \subseteq DOMAIN store'
    /\ \A id \in DOMAIN store' :
          Written(id) =>
             /\ pc = "save"
             /\ \E a \in Named : id = encodeId(a) /\ ~Absent(a)

\* C13: no step removes an Account record, and a record is created or
\* changed only by the save of a batch whose working set holds its account and
\* whose storage read returned a value for it; every other record stays as it
\* was.
C13_OnlyNamedChange == [][C13_Step]_vars

\* C13 witness: a batch naming only Bob has saved Bob's record, and the record
\* an earlier batch persisted for Alice is still in place.
C13_Witness ==
    /\ pc = "done"
    /\ Named = {Bob}
    /\ Saves # {}
    /\ DOMAIN store = {encodeId(Alice), encodeId(Bob)}
    /\ store[encodeId(Alice)].updatedAt < LastHeight
    /\ store[encodeId(Bob)].updatedAt = LastHeight

\* the fingerprint literal of the version a method reads as
VersionLiteral(m) ==
    IF m.class = "BalancesAccountStorage"
    THEN TypeHash("0b3b4bf0dd7388459eba461bc7c3226bf58608c941710a714e02f33ec0f91e78")
    ELSE CASE m.method \in {"getAsV1050", "getManyAsV1050"} ->
                 TypeHash("2208f857b7cd6fecf78ca393cf3d17ec424773727d0028f07c9f0dc608fc1b7a")
           [] m.method \in {"getAsV2025", "getManyAsV2025"} ->
                 TypeHash("eb40f1d91f26d72e29c60e034d53a72b9b529014c7e108f422d8ad5f03f0c902")
           [] m.method \in {"getAsV2028", "getManyAsV2028"} ->
                 TypeHash("73070b537f1805475b37167271b33ac7fd6ffad8ba62da08bc14937a017b8bb2")
           [] m.method \in {"getAsV2030", "getManyAsV2030"} ->
                 TypeHash("1ddc7ade926221442c388ee4405a71c9428e548fab037445aaf4b3a78f4735c1")

ItemOf(m) == IF m.class = "BalancesAccountStorage" THEN BalancesAccount ELSE SystemAccount

\* the version predicate of the invoked method holds under the runtime
InvokedVersionHolds == ctx.chain.typeHash[ItemOf(invoked)] = VersionLiteral(invoked)

\* C14: a versioned read called while its version predicate is false fails
\* with an assertion error and issues no getStorage and no queryStorage call;
\* whenever a version predicate of an accessor is true its isExists is true,
\* and isExists is true exactly when the runtime reports a fingerprint for the
\* storage item.
C14_AccessorsGuarded ==
    /\ (invoked # NoCall /\ ~InvokedVersionHolds) =>
          /\ pc = "failed"
          /\ error = AssertionError
          /\ log = <<>>
    /\ (invoked # NoCall /\ InvokedVersionHolds) =>
          /\ pc = "done"
          /\ Len(log) = 1
          /\ log[1].op = IF invoked.method \in SingleKeyMethods THEN "getStorage" ELSE "queryStorage"
          /\ <<log[1].pallet, log[1].item>> = ItemOf(invoked)
    /\ InBatch =>
          /\ (\/ SystemAccountStorage_isV1050(ctx.chain)
              \/ SystemAccountStorage_isV2025(ctx.chain)
              \/ SystemAccountStorage_isV2028(ctx.chain)
              \/ SystemAccountStorage_isV2030(ctx.chain)) => SystemAccountStorage_isExists(ctx.chain)
          /\ BalancesAccountStorage_isV1050(ctx.chain) => BalancesAccountStorage_isExists(ctx.chain)
          /\ SystemAccountStorage_isExists(ctx.chain) <=> SystemExists
          /\ BalancesAccountStorage_isExists(ctx.chain) <=> BalancesExists

\* C14 witness: getManyAsV2030 of the System.Account accessor was called with
\* two keys under a runtime where System.Account exists in the V1050
\* encoding, and failed by assertion with no chain call.
C14_Witness ==
    /\ invoked = [class |-> "SystemAccountStorage", method |-> "getManyAsV2030",
                  keys |-> <<Alice, Bob>>]
    /\ SystemAccountStorage_isV1050(ctx.chain)
    /\ SystemAccountStorage_isExists(ctx.chain)
    /\ pc = "failed"
    /\ error = AssertionError
    /\ log = <<>>

====
